---- MODULE Spec2Model ----
(***************************************************************************)
(* Model of src/http_pipelining.py: the pipelined request packet           *)
(* (prepare_packet), the response framer (get_response, parse_response)    *)
(* and the retry loop (http_pipelining_with_retries).                      *)
(*                                                                         *)
(* Text (str and bytes) is a sequence of one-character strings, so that    *)
(* every index, slice, find and split of the source acts on the same       *)
(* positions as in the program.                                            *)
(***************************************************************************)
EXTENDS Integers, Sequences, FiniteSets, TLC

\* ---- bounds -------------------------------------------------------------
\* most urls of one call
MaxUrls == 2
\* largest max_retries argument
MaxRetries == 2
\* most trailing bytes the peer's stream may lose before the connection ends
MaxTruncate == 4

VARIABLES
  urls, method, headers, connection_keep_alive,          \* arguments
  packet, ppc,                                           \* prepare_packet
  stream, content, idx, prepared_resps, fpc,             \* parse_response
  max_retries, status_forcelist, backoff_factor,         \* retry arguments
  it, urls_to_perform, total_responses, total_ex, backoff, pc, outcome, attempts,
  given, target, tls, tpc, sock_open, wire, data, last_recv    \* perform

vars == << urls, method, headers, connection_keep_alive, packet, ppc,
           stream, content, idx, prepared_resps, fpc,
           max_retries, status_forcelist, backoff_factor,
           it, urls_to_perform, total_responses, total_ex, backoff, pc, outcome, attempts,
           given, target, tls, tpc, sock_open, wire, data, last_recv >>

\* ---- str and bytes ------------------------------------------------------
\* sep = '\r\n'
sep == <<"\r", "\n">>
\* data_sep = (sep * 2).encode()
data_sep == sep \o sep

Range(s) == {s[i] : i \in 1..Len(s)}

Min(S) == CHOOSE m \in S : \A n \in S : m <= n

\* find: 0-based index of the first occurrence of d in s, or -1
find(s, d) ==
  LET hits == {i \in 0..(Len(s) - Len(d)) : SubSeq(s, i + 1, i + Len(d)) = d}
  IN IF hits = {} THEN -1 ELSE Min(hits)

\* count: number of non-overlapping occurrences of d in s
RECURSIVE count(_, _)
count(s, d) ==
  IF find(s, d) = -1 THEN 0
  ELSE 1 + count(SubSeq(s, find(s, d) + Len(d) + 1, Len(s)), d)

\* s.split(d, maxsplit)
RECURSIVE splitn(_, _, _)
splitn(s, d, maxsplit) ==
  IF maxsplit = 0 \/ find(s, d) = -1 THEN <<s>>
  ELSE <<SubSeq(s, 1, find(s, d))>>
         \o splitn(SubSeq(s, find(s, d) + Len(d) + 1, Len(s)), d, maxsplit - 1)

\* s.split(d)
split(s, d) == splitn(s, d, Len(s))

\* d.join(parts)
RECURSIVE join(_, _)
join(d, parts) ==
  IF parts = <<>> THEN <<>>
  ELSE IF Len(parts) = 1 THEN parts[1]
  ELSE parts[1] \o d \o join(d, Tail(parts))

\* a slice index, clamped to 0..n
norm(i, n) ==
  IF i < 0 THEN (IF i + n < 0 THEN 0 ELSE i + n) ELSE (IF i > n THEN n ELSE i)

\* s[a:b]
slice(s, a, b) == SubSeq(s, norm(a, Len(s)) + 1, norm(b, Len(s)))

\* s[a:]
sliceFrom(s, a) == SubSeq(s, norm(a, Len(s)) + 1, Len(s))

UpperChars == <<"A", "B", "C", "D", "E", "F", "G", "H", "I", "J", "K", "L", "M", "N", "O", "P", "Q", "R", "S", "T", "U", "V", "W", "X", "Y", "Z">>
LowerChars == <<"a", "b", "c", "d", "e", "f", "g", "h", "i", "j", "k", "l", "m", "n", "o", "p", "q", "r", "s", "t", "u", "v", "w", "x", "y", "z">>
Digits == <<"0", "1", "2", "3", "4", "5", "6", "7", "8", "9">>

IndexOf(c, s) == CHOOSE i \in 1..Len(s) : s[i] = c

\* str.upper, str.lower
upper(s) ==
  [i \in 1..Len(s) |->
     IF s[i] \in Range(LowerChars) THEN UpperChars[IndexOf(s[i], LowerChars)] ELSE s[i]]

lower(s) ==
  [i \in 1..Len(s) |->
     IF s[i] \in Range(UpperChars) THEN LowerChars[IndexOf(s[i], UpperChars)] ELSE s[i]]

IsSpace(c) == c \in {" ", "\r", "\n", "\t"}

\* str.strip
RECURSIVE lstrip(_)
lstrip(s) == IF s # <<>> /\ IsSpace(s[1]) THEN lstrip(Tail(s)) ELSE s

RECURSIVE rstrip(_)
rstrip(s) ==
  IF s # <<>> /\ IsSpace(s[Len(s)]) THEN rstrip(SubSeq(s, 1, Len(s) - 1)) ELSE s

strip(s) == rstrip(lstrip(s))

\* the digits of a number text, after the blanks and the sign int() accepts
unsigned(s) ==
  IF strip(s) # <<>> /\ strip(s)[1] \in {"+", "-"} THEN Tail(strip(s)) ELSE strip(s)

\* whether int(s) returns (otherwise it raises ValueError)
IsInt(s) == unsigned(s) # <<>> /\ \A i \in 1..Len(unsigned(s)) : unsigned(s)[i] \in Range(Digits)

RECURSIVE natural(_)
natural(ds) ==
  IF ds = <<>> THEN 0
  ELSE 10 * natural(SubSeq(ds, 1, Len(ds) - 1)) + (IndexOf(ds[Len(ds)], Digits) - 1)

\* int(s)
int(s) == IF strip(s)[1] = "-" THEN 0 - natural(unsigned(s)) ELSE natural(unsigned(s))

\* ---- prepare_packet -----------------------------------------------------
Host == <<"x">>

\* intput_headers_str: str(key) + ': ' + str(val) + sep per item, in mapping order
RECURSIVE intput_headers_str(_)
intput_headers_str(hs) ==
  IF hs = <<>> THEN <<>>
  ELSE hs[1][1] \o <<":", " ">> \o hs[1][2] \o sep \o intput_headers_str(Tail(hs))

\* con_type with its two branches exchanged
con_type_inverted(keep_alive) == IF keep_alive THEN <<"C", "o", "n", "n", "e", "c", "t", "i", "o", "n", ":", " ", "c", "l", "o", "s", "e">> \o sep ELSE <<>>

\* con_type = '' if connection_keep_alive else f'Connection: close{sep}'
con_type(keep_alive) == IF keep_alive THEN <<>> ELSE <<"C", "o", "n", "n", "e", "c", "t", "i", "o", "n", ":", " ", "c", "l", "o", "s", "e">> \o sep

\* f"{method.upper()} {url} HTTP/1.1{sep}Host: {host}{sep}{intput_headers_str}"
request(m, url, hs) ==
  upper(m) \o <<" ">> \o url \o <<" ", "H", "T", "T", "P", "/", "1", ".", "1">> \o sep \o <<"H", "o", "s", "t", ":", " ">> \o Host \o sep
    \o intput_headers_str(hs)

\* the requests joined with nothing between them
request_joiner_none == <<>>

\* the separator of the join over the requests (line 44)
request_joiner == sep

\* f'{sep}'.join([...]) + con_type + sep * 2
prepare_packet(us, m, hs, keep_alive) ==
  join(request_joiner, [i \in 1..Len(us) |-> request(m, us[i], hs)])
    \o con_type(keep_alive) \o sep \o sep

\* ---- get_response / parse_response --------------------------------------
\* protocol, rcode, rmsg = top.split(' ', 2): ok = FALSE is the ValueError of
\* the unpacking or of int(rcode)
status_line(top) ==
  IF Len(splitn(top, <<" ">>, 2)) = 3 /\ IsInt(splitn(top, <<" ">>, 2)[2])
  THEN [ok |-> TRUE, rcode |-> int(splitn(top, <<" ">>, 2)[2]),
        rmsg |-> splitn(top, <<" ">>, 2)[3]]
  ELSE [ok |-> FALSE, rcode |-> 0, rmsg |-> <<>>]

\* CaseInsensitiveDict.__setitem__: the key is lower-cased, the last value wins.
\* A dict is the set of its <<key, value>> items.
setitem(d, key, val) ==
  {p \in d : p[1] # lower(key)} \cup {<<lower(key), val>>}

EmptyDict == {}

\* prepare_headers from the dict d on: left, right = h.split(':', 1);
\* headers[left.strip()] = right.strip().  ok = FALSE is the ValueError of the
\* unpacking of a line with no colon
RECURSIVE prepare_headers_from(_, _)
prepare_headers_from(raw_headers, d) ==
  IF raw_headers = <<>> THEN [ok |-> TRUE, dict |-> d]
  ELSE IF Len(splitn(raw_headers[1], <<":">>, 1)) # 2 THEN [ok |-> FALSE, dict |-> d]
  ELSE prepare_headers_from(
         Tail(raw_headers),
         setitem(d, strip(splitn(raw_headers[1], <<":">>, 1)[1]),
                 strip(splitn(raw_headers[1], <<":">>, 1)[2])))

prepare_headers(raw_headers) == prepare_headers_from(raw_headers, EmptyDict)

\* resp.headers.get('content-length', 0)
content_length(d) ==
  IF \E p \in d : p[1] = <<"c", "o", "n", "t", "e", "n", "t", "-", "l", "e", "n", "g", "t", "h">>
  THEN (CHOOSE p \in d : p[1] = <<"c", "o", "n", "t", "e", "n", "t", "-", "l", "e", "n", "g", "t", "h">>)[2]
  ELSE <<"0">>

\* offset = int(resp.headers.get('content-length', 0)) if method != 'HEAD' else 0
body_offset(m, d) == IF m # <<"H", "E", "A", "D">> THEN int(content_length(d)) ELSE 0

\* body_content with the "if offset else None" left out
body_content_bytes(raw, headers_end, offset) ==
  [is_none |-> FALSE, bytes |-> slice(raw, headers_end + Len(data_sep), offset)]

\* resp._content = raw[headers_end + len(data_sep): offset] if offset else None
body_content(raw, headers_end, offset) ==
  IF offset # 0
  THEN [is_none |-> FALSE, bytes |-> slice(raw, headers_end + Len(data_sep), offset)]
  ELSE [is_none |-> TRUE, bytes |-> <<>>]

\* rest_after without the body length
rest_after_headers(raw, headers_end, offset) == sliceFrom(raw, headers_end + Len(data_sep))

\* memoryview(raw)[headers_end + len(data_sep) + offset:].tobytes()
rest_after(raw, headers_end, offset) ==
  sliceFrom(raw, headers_end + Len(data_sep) + offset)

NoResponse ==
  [status_code |-> 0, reason |-> <<>>, headers |-> EmptyDict,
   content |-> [is_none |-> TRUE, bytes |-> <<>>], url |-> <<>>]

\* the response built from the status line st and the headers hd (lines 69-77)
build_response(raw, url, m, headers_end, st, hd) ==
  IF ~st.ok \/ ~hd.ok \/ (m # <<"H", "E", "A", "D">> /\ ~IsInt(content_length(hd.dict)))
  THEN [ok |-> FALSE, resp |-> NoResponse, rest |-> raw]
  ELSE [ok |-> TRUE,
        resp |-> [status_code |-> st.rcode, reason |-> st.rmsg, headers |-> hd.dict,
                  content |-> body_content(raw, headers_end, body_offset(m, hd.dict)),
                  url |-> url],
        rest |-> rest_after(raw, headers_end, body_offset(m, hd.dict))]

\* top, *raw_headers = raw[0:headers_end].decode().split(sep)
header_lines(raw, headers_end) == split(slice(raw, 0, headers_end), sep)

\* the parse of the block that ends at headers_end
frame_at(raw, url, m, headers_end) ==
  build_response(raw, url, m, headers_end,
                 status_line(header_lines(raw, headers_end)[1]),
                 prepare_headers(Tail(header_lines(raw, headers_end))))

\* get_response: ok = FALSE stands for the exception it raises
get_response(raw, url, m) == frame_at(raw, url, m, find(raw, data_sep))

\* one iteration that breaks the loop on an exception instead of re-raising it
iteration_result_break(g, cont, prepared) ==
  IF ~g.ok
  THEN [raised |-> FALSE, brk |-> TRUE, content |-> cont, prepared |-> prepared]
  ELSE [raised |-> FALSE, brk |-> (g.rest = <<>>), content |-> g.rest,
        prepared |-> Append(prepared, g.resp)]

\* the rest of one iteration once get_response ended as g: an exception is
\* re-raised, a response is appended, and an empty rest breaks the loop
iteration_result(g, cont, prepared) ==
  IF ~g.ok
  THEN [raised |-> TRUE, brk |-> FALSE, content |-> cont, prepared |-> prepared]
  ELSE [raised |-> FALSE, brk |-> (g.rest = <<>>), content |-> g.rest,
        prepared |-> Append(prepared, g.resp)]

\* one iteration of the for loop of parse_response, for the url of index i (from 1)
loop_body(cont, i, prepared, us, m) ==
  iteration_result(get_response(cont, us[i], m), cont, prepared)

\* if len(prepared_resps) != len(urls): raise the error carrying ready_responses
enough(prepared, us) == Len(prepared) = Len(us)

RECURSIVE parse_loop(_, _, _, _, _)
\* the loop goes on after an iteration that ended as b
parse_next(b, i, us, m) ==
  IF b.raised \/ b.brk
  THEN [raised |-> b.raised, content |-> b.content, prepared |-> b.prepared]
  ELSE parse_loop(b.content, i + 1, b.prepared, us, m)

\* for idx, url in enumerate(urls), from the url of index i (from 1)
parse_loop(cont, i, prepared, us, m) ==
  IF i > Len(us)
  THEN [raised |-> FALSE, content |-> cont, prepared |-> prepared]
  ELSE parse_next(loop_body(cont, i, prepared, us, m), i, us, m)

\* the end of parse_response once the loop ended as r
parse_result(r, us) ==
  IF r.raised THEN [kind |-> "exception", responses |-> <<>>, leftover |-> r.content]
  ELSE IF enough(r.prepared, us)
  THEN [kind |-> "ok", responses |-> r.prepared, leftover |-> r.content]
  ELSE [kind |-> "partial", responses |-> r.prepared, leftover |-> r.content]

\* parse_response: "ok" returns responses; "partial" is the RuntimeError that
\* carries ready_responses; "exception" is an exception of get_response re-raised
parse_response(cont, us, m) == parse_result(parse_loop(cont, 1, <<>>, us, m), us)

\* ---- the peer: synthetic well-formed responses --------------------------
BodyBytes == <<"x", "y", "z">>

RECURSIVE header_block(_)
header_block(hs) ==
  IF hs = <<>> THEN <<>>
  ELSE sep \o hs[1][1] \o <<":", " ">> \o hs[1][2] \o header_block(Tail(hs))

\* STATUSLINE\r\n<headers>\r\n\r\n<body-of-Content-Length-bytes>
encode(r) ==
  <<"H", "T", "T", "P", "/", "1", ".", "1", " ">> \o r.status \o <<" ", "O", "K">> \o header_block(r.hdrs) \o data_sep \o r.body

RECURSIVE encode_all(_)
encode_all(rs) == IF rs = <<>> THEN <<>> ELSE encode(rs[1]) \o encode_all(Tail(rs))

HeaderChoices ==
  { <<>>,
    << <<<<"C", "o", "n", "t", "e", "n", "t", "-", "L", "e", "n", "g", "t", "h">>, <<"0">>>> >>,
    << <<<<"C", "o", "n", "t", "e", "n", "t", "-", "L", "e", "n", "g", "t", "h">>, <<"2">>>> >>,
    << <<<<"X", "-", "T", "a", "g">>, <<"1">>>>, <<<<"C", "O", "N", "T", "E", "N", "T", "-", "L", "E", "N", "G", "T", "H">>, <<"2">>>> >> }

Statuses == {<<"2", "0", "0">>, <<"4", "0", "4">>, <<"5", "0", "3">>}

\* the dict of a list of <<key, value>> header lines
RECURSIVE dict_of(_)
dict_of(hs) ==
  IF hs = <<>> THEN EmptyDict
  ELSE setitem(dict_of(SubSeq(hs, 1, Len(hs) - 1)), hs[Len(hs)][1], hs[Len(hs)][2])

DeclaredLength(hs) == int(content_length(dict_of(hs)))

\* a well-formed response to a request of method m: a HEAD response has no body
Synth(status, hs, m) ==
  [status |-> status, hdrs |-> hs,
   body |-> IF m = <<"H", "E", "A", "D">> THEN <<>> ELSE SubSeq(BodyBytes, 1, DeclaredLength(hs))]

SynthResponses(m) == {Synth(s, hs, m) : s \in {<<"2", "0", "0">>, <<"5", "0", "3">>}, hs \in HeaderChoices}

RECURSIVE SeqsOf(_, _)
SeqsOf(S, n) ==
  IF n = 0 THEN {<<>>} ELSE {Append(s, x) : s \in SeqsOf(S, n - 1), x \in S}

UrlPool == <<<<"h", "t", "t", "p", ":", "/", "/", "x", "/", "a">>, <<"h", "t", "t", "p", ":", "/", "/", "x", "/", "b">>, <<"h", "t", "t", "p", ":", "/", "/", "x", "/", "c">>, <<"h", "t", "t", "p", ":", "/", "/", "x", "/", "d">>>>

Methods == {<<"H", "E", "A", "D">>, <<"G", "E", "T">>}

\* drop the last d bytes
truncate(s, d) == SubSeq(s, 1, IF d > Len(s) THEN 0 ELSE Len(s) - d)
\* ---- the retry loop: http_pipelining_with_retries -----------------------
\* range with one iteration too many
range_inclusive(lo, hi) == lo..hi

\* for it in range(0, max_retries)
range(lo, hi) == lo..(hi - 1)

NoEx == [type |-> "None", has_ready |-> FALSE, ready_responses |-> <<>>, value |-> <<>>]

Exc(type) == [type |-> type, has_ready |-> FALSE, ready_responses |-> <<>>, value |-> <<>>]

\* ex = RuntimeError(...); ex.ready_responses = responses
ExcReady(responses) ==
  [type |-> "RuntimeError", has_ready |-> TRUE, ready_responses |-> responses, value |-> <<>>]

Returned(responses) ==
  [type |-> "return", has_ready |-> FALSE, ready_responses |-> <<>>, value |-> responses]

\* resps = [r for r in responses if r.status_code in status_forcelist]
forcelist_responses(responses, forcelist) ==
  LET P(r) == r.status_code \in forcelist IN SelectSeq(responses, P)

\* handled = [r for r in ready_resps if r.status_code < 500]
handled_of(ready_resps) ==
  LET P(r) == r.status_code < 500 IN SelectSeq(ready_resps, P)

\* handled_urls had it been bound to the urls of the handled responses
handled_urls_bound(handled) == [bound |-> TRUE, urls |-> {r.url : r \in Range(handled)}]

\* the name handled_urls of line 200: no statement of the module binds it
handled_urls(handled) == [bound |-> FALSE, urls |-> {}]

\* urls_to_perform = [u for u in need_urls if not u in handled_urls]: the name is
\* looked up once per element, so an empty need_urls raises nothing
exclude_handled(need_urls, handled) ==
  LET h == handled_urls(handled)
      P(u) == u \notin h.urls
  IN IF need_urls # <<>> /\ ~h.bound
     THEN [name_error |-> TRUE, urls |-> need_urls]
     ELSE [name_error |-> FALSE, urls |-> SelectSeq(need_urls, P)]

\* after the loop: if total_ex: raise total_ex; return total_responses
after_loop(ex, responses) == IF ex.type # "None" THEN ex ELSE Returned(responses)

\* a backoff that doubles with every factor
next_backoff_times(b, i, factor) == b * (1 + factor)

\* backoff += it * backoff_factor
next_backoff(b, i, factor) == b + i * factor

\* the except clause (lines 194-206) for exception ex raised in iteration it
except_clause(ex) ==
  LET ready_resps == ex.ready_responses
      handled == handled_of(ready_resps)
      ex_urls == exclude_handled(urls_to_perform, handled)
      retry(us, total) ==
        [pc |-> "loop", outcome |-> NoEx, urls_to_perform |-> us,
         total_responses |-> total, total_ex |-> ex, it |-> it + 1,
         backoff |-> next_backoff(backoff, it, backoff_factor), slept |-> backoff]
  IN IF ex.has_ready /\ ready_resps # <<>>
     THEN IF ex_urls.name_error
          THEN [pc |-> "raised", outcome |-> Exc("NameError"),
                urls_to_perform |-> urls_to_perform,
                total_responses |-> total_responses, total_ex |-> NoEx, it |-> it,
                backoff |-> backoff, slept |-> -1]
          ELSE IF ex_urls.urls = <<>>
          THEN [pc |-> "returned",
                outcome |-> after_loop(NoEx, total_responses \o handled),
                urls_to_perform |-> ex_urls.urls,
                total_responses |-> total_responses \o handled, total_ex |-> NoEx,
                it |-> it, backoff |-> backoff, slept |-> -1]
          ELSE retry(ex_urls.urls, total_responses \o handled)
     ELSE retry(urls_to_perform, total_responses)

\* the try block after http_pipelining returned responses (lines 186-193)
try_block(responses) ==
  IF forcelist_responses(responses, status_forcelist) # <<>>
  THEN except_clause(ExcReady(responses))
  ELSE [pc |-> "returned", outcome |-> after_loop(NoEx, total_responses \o responses),
        urls_to_perform |-> urls_to_perform,
        total_responses |-> total_responses \o responses, total_ex |-> NoEx,
        it |-> it, backoff |-> backoff, slept |-> -1]

\* what one attempt did, kept for the properties
LogEntry(kind, responses, slept) ==
  [it |-> it, urls |-> urls_to_perform, kind |-> kind, responses |-> responses,
   total_before |-> total_responses, slept |-> slept]

Commit(s, kind, responses) ==
  /\ pc' = s.pc
  /\ outcome' = s.outcome
  /\ urls_to_perform' = s.urls_to_perform
  /\ total_responses' = s.total_responses
  /\ total_ex' = s.total_ex
  /\ it' = s.it
  /\ backoff' = s.backoff
  /\ attempts' = Append(attempts, LogEntry(kind, responses, s.slept))

Forcelists == {{500, 502, 503, 504}, {404, 503}}

BackoffFactors == {1, 2}

PoolNames == {UrlPool[i] : i \in 1..MaxUrls}

\* every non-empty url list
UrlLists == UNION {SeqsOf(PoolNames, n) : n \in 1..MaxUrls}

\* the url lists of the retry loop: the prefixes of the pool and a duplicate
RetryUrlLists ==
  {SubSeq(UrlPool, 1, n) : n \in 0..MaxUrls} \cup {<<UrlPool[1], UrlPool[1]>>}

\* the responses of the peer in the retry loop
RetryResponses(m) == {Synth(s, << <<<<"C", "o", "n", "t", "e", "n", "t", "-", "L", "e", "n", "g", "t", "h">>, <<"2">>>> >>, m) : s \in Statuses}

\* caller-supplied headers, in mapping order
RequestHeaders ==
  { <<>>, << <<<<"A", "c", "c", "e", "p", "t">>, <<"*">>>> >>, << <<<<"C", "o", "n", "n", "e", "c", "t", "i", "o", "n">>, <<"c", "l", "o", "s", "e">>>> >> }

PacketIdle == packet = <<>> /\ ppc = "idle"

FramerIdle ==
  /\ stream = [resps |-> <<>>, dropped |-> 0]
  /\ content = <<>> /\ idx = 0 /\ prepared_resps = <<>> /\ fpc = "idle"

RetryIdle ==
  /\ max_retries = 0 /\ status_forcelist = {} /\ backoff_factor = 0
  /\ it = 0 /\ urls_to_perform = <<>> /\ total_responses = <<>>
  /\ total_ex = NoEx /\ backoff = 0 /\ pc = "idle" /\ outcome = NoEx
  /\ attempts = <<>>

NoTarget == [matched |-> FALSE, protocol |-> <<>>, host |-> <<>>, port |-> 0]

NoGiven == [scheme |-> <<>>, host |-> <<>>, port |-> <<>>, path |-> <<>>]

TransportIdle ==
  /\ given = NoGiven /\ target = NoTarget /\ tls = FALSE /\ tpc = "idle"
  /\ sock_open = 0 /\ wire = <<>> /\ data = <<>> /\ last_recv = "none"

argVars == << urls, method, headers, connection_keep_alive >>
packetVars == << packet, ppc >>
framerVars == << stream, content, idx, prepared_resps, fpc >>
retryVars == << max_retries, status_forcelist, backoff_factor, it, urls_to_perform,
                total_responses, total_ex, backoff, pc, outcome, attempts >>

transportVars == << given, target, tls, tpc, sock_open, wire, data, last_recv >>

\* ---- specification of the retry loop -----------------------------------
Init ==
  /\ urls \in RetryUrlLists
  /\ method \in Methods
  /\ headers = <<>>
  /\ connection_keep_alive = FALSE
  /\ PacketIdle
  /\ FramerIdle
  /\ TransportIdle
  /\ max_retries \in 0..MaxRetries
  /\ status_forcelist \in Forcelists
  /\ backoff_factor \in BackoffFactors
  /\ it = 0
  /\ urls_to_perform = urls
  /\ total_responses = <<>>
  /\ total_ex = NoEx
  /\ backoff = backoff_factor
  /\ pc = "loop"
  /\ outcome = NoEx
  /\ attempts = <<>>

InLoop == pc = "loop" /\ it \in range(0, max_retries)

\* the loop is exhausted (lines 207-209)
LoopDone ==
  /\ pc = "loop" /\ it \notin range(0, max_retries)
  /\ outcome' = after_loop(total_ex, total_responses)
  /\ pc' = IF total_ex.type # "None" THEN "raised" ELSE "returned"
  /\ UNCHANGED << argVars, transportVars, packetVars, framerVars, max_retries, status_forcelist,
                  backoff_factor, it, urls_to_perform, total_responses, total_ex,
                  backoff, attempts >>

\* http_pipelining returns [] for no urls (lines 158-159)
AttemptNoUrls ==
  /\ InLoop /\ urls_to_perform = <<>>
  /\ \E s \in {try_block(<<>>)} : Commit(s, "empty", <<>>)
  /\ UNCHANGED << argVars, transportVars, packetVars, framerVars, max_retries, status_forcelist,
                  backoff_factor >>

\* connect, the TLS handshake, sendall or shutdown raises
AttemptConnectionError ==
  /\ InLoop /\ urls_to_perform # <<>>
  /\ \E s \in {except_clause(Exc("OSError"))} : Commit(s, "connection_error", <<>>)
  /\ UNCHANGED << argVars, transportVars, packetVars, framerVars, max_retries, status_forcelist,
                  backoff_factor >>

\* how the retry loop goes on after parse_response ended as parsed
after_parse(parsed) ==
  CASE parsed.kind = "exception" -> except_clause(Exc("ValueError"))
    [] parsed.kind = "partial" -> except_clause(ExcReady(parsed.responses))
    [] parsed.kind = "ok" -> try_block(parsed.responses)

attempt_kind(parsed) ==
  IF parsed.kind = "ok" /\ forcelist_responses(parsed.responses, status_forcelist) # <<>>
  THEN "forcelist" ELSE parsed.kind

\* recvall returns the bytes the peer sent before the connection ended, and
\* parse_response frames them
AttemptReceived ==
  /\ InLoop /\ urls_to_perform # <<>>
  /\ \E k \in 0..Len(urls_to_perform), d \in 0..MaxTruncate :
       \E rs \in SeqsOf(RetryResponses(method), k) :
         \E parsed \in {parse_response(truncate(encode_all(rs), d), urls_to_perform, method)} :
           \E s \in {after_parse(parsed)} :
             Commit(s, attempt_kind(parsed), parsed.responses)
  /\ UNCHANGED << argVars, transportVars, packetVars, framerVars, max_retries, status_forcelist,
                  backoff_factor >>

Next == LoopDone \/ AttemptNoUrls \/ AttemptConnectionError \/ AttemptReceived

Spec == Init /\ [][Next]_vars

\* ---- specification of the framer ---------------------------------------
InitFramer ==
  /\ method \in Methods
  /\ headers = <<>>
  /\ connection_keep_alive = FALSE
  /\ PacketIdle
  /\ RetryIdle
  /\ TransportIdle
  /\ \E n \in 1..MaxUrls :
       /\ urls = SubSeq(UrlPool, 1, n)
       /\ \E k \in 0..n, d \in 0..MaxTruncate :
            \E rs \in SeqsOf(SynthResponses(method), k) :
              /\ stream = [resps |-> rs, dropped |-> d]
              /\ content = truncate(encode_all(rs), d)
  /\ idx = 0
  /\ prepared_resps = <<>>
  /\ fpc = "loop"

\* one iteration of the for loop (lines 83-95)
ParseIteration ==
  /\ fpc = "loop" /\ idx < Len(urls)
  /\ LET b == loop_body(content, idx + 1, prepared_resps, urls, method)
     IN /\ content' = b.content
        /\ prepared_resps' = b.prepared
        /\ idx' = IF b.raised THEN idx ELSE idx + 1
        /\ fpc' = IF b.raised THEN "raised_exception"
                  ELSE IF b.brk \/ idx + 1 = Len(urls) THEN "check" ELSE "loop"
  /\ UNCHANGED << argVars, transportVars, packetVars, retryVars, stream >>

\* the length check after the loop (lines 98-104)
ParseCheck ==
  /\ fpc = "check"
  /\ fpc' = IF enough(prepared_resps, urls) THEN "returned" ELSE "raised_partial"
  /\ UNCHANGED << argVars, transportVars, packetVars, retryVars, stream, content, idx, prepared_resps >>

NextFramer == ParseIteration \/ ParseCheck

SpecFramer == InitFramer /\ [][NextFramer]_vars

\* ---- specification of the packet builder -------------------------------
InitPacket ==
  /\ urls \in UrlLists
  /\ method \in {<<"H", "E", "A", "D">>, <<"G", "E", "T">>, <<"g", "e", "t">>}
  /\ headers \in RequestHeaders
  /\ connection_keep_alive \in BOOLEAN
  /\ packet = <<>>
  /\ ppc = "start"
  /\ FramerIdle
  /\ RetryIdle
  /\ TransportIdle

PreparePacket ==
  /\ ppc = "start"
  /\ packet' = prepare_packet(urls, method, headers, connection_keep_alive)
  /\ ppc' = "built"
  /\ UNCHANGED << argVars, transportVars, framerVars, retryVars >>

NextPacket == PreparePacket

SpecPacket == InitPacket /\ [][NextPacket]_vars


\* ---- http_pipelining: the target of the first url ------------------------
\* u[i:].startswith(w)
startswith(u, i, w) == i + Len(w) <= Len(u) /\ SubSeq(u, i + 1, i + Len(w)) = w

\* the offset after the longest run of digits that starts at offset i
digits_end(u, i) ==
  CHOOSE j \in i..Len(u) :
    /\ \A k \in (i + 1)..j : u[k] \in Range(Digits)
    /\ (j < Len(u) => u[j + 1] \notin Range(Digits))

\* `(:\d+)?\/` at offset p: the optional port group is tried first, then skipped
port_group(u, p) ==
  IF /\ startswith(u, p, <<":">>)
     /\ digits_end(u, p + 1) > p + 1
     /\ startswith(u, digits_end(u, p + 1), <<"/">>)
  THEN [ok |-> TRUE, port |-> SubSeq(u, p + 1, digits_end(u, p + 1))]
  ELSE [ok |-> startswith(u, p, <<"/">>), port |-> <<>>]

\* `(.*?)` at offset b: the shortest host after which the rest of the pattern matches
host_lengths(u, b) ==
  {h \in 0..(Len(u) - b) :
     /\ \A k \in (b + 1)..(b + h) : u[k] # "\n"
     /\ port_group(u, b + h).ok}

\* `(https?)` at offset i
scheme_at(u, i) ==
  IF startswith(u, i, <<"h", "t", "t", "p", "s", ":", "/", "/">>) THEN <<"h", "t", "t", "p", "s">>
  ELSE IF startswith(u, i, <<"h", "t", "t", "p", ":", "/", "/">>) THEN <<"h", "t", "t", "p">>
  ELSE <<>>

\* the offset at which the host starts when the pattern is matched at offset i
host_start(u, i) == i + Len(scheme_at(u, i)) + 3

NoGroups == [matched |-> FALSE, protocol |-> <<>>, host |-> <<>>, port |-> <<>>]

\* the groups of a match at offset i whose host starts at b and may have the lengths hs
groups_of(u, i, b, hs) ==
  IF scheme_at(u, i) = <<>> \/ hs = {} THEN NoGroups
  ELSE [matched |-> TRUE, protocol |-> scheme_at(u, i),
        host |-> SubSeq(u, b + 1, b + Min(hs)),
        port |-> port_group(u, b + Min(hs)).port]

\* the groups of the pattern matched at offset i
groups_at(u, i) == groups_of(u, i, host_start(u, i), host_lengths(u, host_start(u, i)))

\* the groups of the leftmost of the offsets at which the pattern matches
leftmost(u, at) == IF at = {} THEN NoGroups ELSE groups_at(u, Min(at))

\* re.findall(r'(https?):\/\/(.*?)(:\d+)?\/', url)[0]
findall_first(u) == leftmost(u, {i \in 0..Len(u) : groups_at(u, i).matched})

\* port = port and int(port[1:] or 0): the empty text stays falsy (0 here)
explicit_port(port) == IF port = <<>> THEN 0 ELSE int(sliceFrom(port, 1))

\* default_port = (443 if protocol == 'https' else 80)
default_port(protocol) == IF protocol = <<"h", "t", "t", "p", "s">> THEN 443 ELSE 80

\* port or default_port
port_or_default(port, protocol) ==
  IF explicit_port(port) # 0 THEN explicit_port(port) ELSE default_port(protocol)

\* the arguments of perform for the groups g
target_of(g) ==
  IF ~g.matched THEN NoTarget
  ELSE [matched |-> TRUE, protocol |-> g.protocol, host |-> g.host,
        port |-> port_or_default(g.port, g.protocol)]

\* the host and port http_pipelining hands to perform
http_target(u) == target_of(findall_first(u))

\* use_ssl=None: http_pipelining never passes it
use_ssl == FALSE

\* read_response_ssl() if use_ssl or port == 443 else read_response()
reader_is_ssl(t) == use_ssl \/ t.port = 443

Schemes == {<<"h", "t", "t", "p">>, <<"h", "t", "t", "p", "s">>}
Hosts == {<<"x">>, <<"a", ".", "b">>}
PortTexts == {<<>>, <<":", "8", "0">>, <<":", "4", "4", "3">>, <<":", "8", "4", "4", "3">>, <<":", "0">>}
Paths == {<<>>, <<"a">>, <<"p", ":", "9", "/", "q">>}

url_of(g) == g.scheme \o <<":", "/", "/">> \o g.host \o g.port \o <<"/">> \o g.path

\* ---- specification of the target selection -------------------------------
InitTarget ==
  /\ given \in [scheme : Schemes, host : Hosts, port : PortTexts, path : Paths]
  /\ urls = <<url_of(given)>>
  /\ method \in Methods
  /\ headers = <<>>
  /\ connection_keep_alive = FALSE
  /\ PacketIdle
  /\ FramerIdle
  /\ RetryIdle
  /\ target = NoTarget /\ tls = FALSE /\ tpc = "call"
  /\ sock_open = 0 /\ wire = <<>> /\ data = <<>> /\ last_recv = "none"

\* http_pipelining up to the choice of the reader in perform
SelectReader ==
  /\ tpc = "call"
  /\ target' = http_target(urls[1])
  /\ tls' = (target'.matched /\ reader_is_ssl(target'))
  /\ tpc' = IF target'.matched THEN "selected" ELSE "raised"
  /\ UNCHANGED << argVars, packetVars, framerVars, retryVars,
                  given, sock_open, wire, data, last_recv >>

NextTarget == SelectReader

SpecTarget == InitTarget /\ [][NextTarget]_vars

\* ---- perform: the socket, recvall and the retry loop around them ----------
\* the largest max_retries of the calls whose attempts run step by step
MaxRunRetries == 3

\* buffer_size=1024*1024
buffer_size == 1024 * 1024

\* leaving the with block without closing the socket
with_exit_open(n) == n

\* leaving the with block of read_response or read_response_ssl closes the socket,
\* on a return and on an exception alike
with_exit(n) == n - 1

\* while data.count(data_sep) != resp_count
recv_again(d, resp_count) == count(d, data_sep) # resp_count

\* the response of the peer to one request: for GET its body is a blank line pair
RunResponse(m) ==
  IF m = <<"H", "E", "A", "D">> THEN Synth(<<"2", "0", "0">>, <<>>, m)
  ELSE [status |-> <<"2", "0", "0">>, hdrs |-> << <<<<"C", "o", "n", "t", "e", "n", "t", "-", "L", "e", "n", "g", "t", "h">>, <<"4">>>> >>, body |-> data_sep]

\* what the peer sends on one connection: up to one response more than requests
\* for HEAD, at most one response for GET
RunStreams(m, n) ==
  {encode_all([i \in 1..k |-> RunResponse(m)]) :
     k \in 0..(IF m = <<"H", "E", "A", "D">> THEN n + 1 ELSE 1)}

RunUrlLists ==
  {SubSeq(UrlPool, 1, n) : n \in 0..MaxUrls} \cup {<<<<"h", "t", "t", "p", "s", ":", "/", "/", "x", "/", "a">>>>, <<<<"x", "/", "a">>>>}

InitRun ==
  /\ urls \in RunUrlLists
  /\ method \in Methods
  /\ headers = <<>>
  /\ connection_keep_alive = FALSE
  /\ PacketIdle
  /\ FramerIdle
  /\ TransportIdle
  /\ max_retries \in 0..MaxRunRetries
  /\ status_forcelist = {500, 502, 503, 504}
  /\ backoff_factor \in BackoffFactors
  /\ it = 0
  /\ urls_to_perform = urls
  /\ total_responses = <<>>
  /\ total_ex = NoEx
  /\ backoff = backoff_factor
  /\ pc = "loop"
  /\ outcome = NoEx
  /\ attempts = <<>>

\* control is in the retry loop, between two calls of http_pipelining
BetweenAttempts == InLoop /\ tpc = "idle"

\* the attempt ends: control is back in the retry loop with s as its next state
EndAttempt(s, kind, responses) ==
  /\ Commit(s, kind, responses)
  /\ tpc' = "idle"
  /\ wire' = <<>> /\ data' = <<>> /\ last_recv' = "none"

\* re.findall finds no target in the first url: IndexError (line 160)
NoTargetInUrl ==
  /\ BetweenAttempts /\ urls_to_perform # <<>>
  /\ ~http_target(urls_to_perform[1]).matched
  /\ \E s \in {except_clause(Exc("IndexError"))} : EndAttempt(s, "exception", <<>>)
  /\ UNCHANGED << argVars, packetVars, framerVars, max_retries, status_forcelist,
                  backoff_factor, given, target, tls, sock_open >>

\* perform creates the socket of the chosen reader and enters its with block
OpenSocket ==
  /\ BetweenAttempts /\ urls_to_perform # <<>>
  /\ http_target(urls_to_perform[1]).matched
  /\ target' = http_target(urls_to_perform[1])
  /\ tls' = reader_is_ssl(target')
  /\ sock_open' = sock_open + 1
  /\ tpc' = "created"
  /\ UNCHANGED << argVars, packetVars, framerVars, retryVars, given, wire, data, last_recv >>

\* settimeout, setsockopt and connect succeed (lines 127-131)
Connect ==
  /\ tpc = "created"
  /\ wire' \in RunStreams(method, Len(urls_to_perform))
  /\ tpc' = "connected"
  /\ UNCHANGED << argVars, packetVars, framerVars, retryVars,
                  given, target, tls, sock_open, data, last_recv >>

\* sock.sendall(prepare_packet()) succeeds; recvall starts with an empty buffer
Sendall ==
  /\ tpc = "connected"
  /\ packet' = prepare_packet(urls_to_perform, method, headers, connection_keep_alive)
  /\ data' = <<>> /\ last_recv' = "none"
  /\ tpc' = "receiving"
  /\ UNCHANGED << argVars, ppc, framerVars, retryVars, given, target, tls, sock_open, wire >>

\* sock.recv returns the next c bytes of the peer
RecvData ==
  /\ tpc = "receiving" /\ recv_again(data, Len(urls_to_perform))
  /\ \E c \in 1..Min({Len(wire), buffer_size}) :
       /\ data' = data \o SubSeq(wire, 1, c)
       /\ wire' = SubSeq(wire, c + 1, Len(wire))
  /\ last_recv' = "data"
  /\ UNCHANGED << argVars, packetVars, framerVars, retryVars,
                  given, target, tls, sock_open, tpc >>

\* sock.recv returns no bytes, the peer having closed: break
RecvClosed ==
  /\ tpc = "receiving" /\ recv_again(data, Len(urls_to_perform))
  /\ wire = <<>>
  /\ last_recv' = "closed"
  /\ tpc' = "received"
  /\ UNCHANGED << argVars, packetVars, framerVars, retryVars,
                  given, target, tls, sock_open, wire, data >>

\* sock.recv raises (the timeout): except Exception: pass
RecvTimeout ==
  /\ tpc = "receiving" /\ recv_again(data, Len(urls_to_perform))
  /\ last_recv' = "timeout"
  /\ tpc' = "received"
  /\ UNCHANGED << argVars, packetVars, framerVars, retryVars,
                  given, target, tls, sock_open, wire, data >>

\* the while condition of recvall is false
RecvEnough ==
  /\ tpc = "receiving" /\ ~recv_again(data, Len(urls_to_perform))
  /\ tpc' = "received"
  /\ UNCHANGED << argVars, packetVars, framerVars, retryVars,
                  given, target, tls, sock_open, wire, data, last_recv >>

\* sock.shutdown(socket.SHUT_RDWR) succeeds
Shutdown ==
  /\ tpc = "received"
  /\ tpc' = "shut"
  /\ UNCHANGED << argVars, packetVars, framerVars, retryVars,
                  given, target, tls, sock_open, wire, data, last_recv >>

\* connect (with the TLS handshake), sendall or shutdown raises: the exception
\* leaves the with block and reaches the except clause of the retry loop
TransportError ==
  /\ tpc \in {"created", "connected", "received"}
  /\ sock_open' = with_exit(sock_open)
  /\ \E s \in {except_clause(Exc("OSError"))} : EndAttempt(s, "connection_error", <<>>)
  /\ UNCHANGED << argVars, packetVars, framerVars, max_retries, status_forcelist,
                  backoff_factor, given, target, tls >>

\* parse_response frames the received bytes inside the with block, the block is
\* left, and the retry loop goes on with what http_pipelining returned or raised
ParseAndExit ==
  /\ tpc = "shut"
  /\ sock_open' = with_exit(sock_open)
  /\ \E parsed \in {parse_response(data, urls_to_perform, method)} :
       \E s \in {after_parse(parsed)} :
         EndAttempt(s, attempt_kind(parsed), parsed.responses)
  /\ UNCHANGED << argVars, packetVars, framerVars, max_retries, status_forcelist,
                  backoff_factor, given, target, tls >>

RunLoopDone == tpc = "idle" /\ LoopDone

RunNoUrls == tpc = "idle" /\ AttemptNoUrls

NextRun ==
  \/ RunLoopDone \/ RunNoUrls \/ NoTargetInUrl \/ OpenSocket \/ Connect \/ Sendall
  \/ RecvData \/ RecvClosed \/ RecvTimeout \/ RecvEnough \/ Shutdown
  \/ TransportError \/ ParseAndExit

\* where the call stands: the loop, its iteration, the step of the attempt and
\* the bytes the peer has still to deliver; every step of NextRun changes it
control == << pc, it, tpc, wire >>

\* some step of the call, by its effect on where the call stands; one is possible
\* as long as the call has neither returned nor raised
Advance ==
  /\ pc = "loop"
  /\ pc' \in {"loop", "returned", "raised"}
  /\ it' \in {it, it + 1}
  /\ tpc' \in {"idle", "created", "connected", "receiving", "received", "shut"}
  /\ \/ \E c \in 0..Len(wire) : wire' = SubSeq(wire, c + 1, Len(wire))
     \/ wire' \in RunStreams(method, Len(urls_to_perform))

\* the interpreter keeps running the one thread of the call, and every socket
\* operation returns or raises within its timeout: the call does not stand still
\* while a step is possible
SpecRun == InitRun /\ [][NextRun]_vars /\ WF_control(Advance)

\* ======================= properties ======================================
LastAttempt == attempts[Len(attempts)]

UrlsOf(responses) == [i \in 1..Len(responses) |-> responses[i].url]

\* s is t with some elements left out
RECURSIVE IsSubsequence(_, _)
IsSubsequence(s, t) ==
  IF s = <<>> THEN TRUE
  ELSE IF t = <<>> THEN FALSE
  ELSE IF s[1] = t[1] THEN IsSubsequence(Tail(s), Tail(t))
  ELSE IsSubsequence(s, Tail(t))

\* C1: whenever http_pipelining_with_retries returns normally, the returned
\* list holds one response for every input url, for any max_retries >= 0.
C1_OneResponsePerUrl == pc = "returned" => Len(outcome.value) = Len(urls)

OnlyConnectionErrors ==
  \A i \in 1..Len(attempts) : attempts[i].kind \in {"connection_error", "exception"}

\* C3: for max_retries >= 1 and a non-empty url list, if every attempt fails
\* with a connection-level error, then the attempts are made for the whole
\* original url list, nothing is accumulated, the call never returns normally,
\* and it raises after exactly max_retries attempts.
C3_ConnectionErrorsExhaust ==
  (max_retries >= 1 /\ urls # <<>> /\ OnlyConnectionErrors) =>
    /\ \A i \in 1..Len(attempts) : attempts[i].urls = urls /\ attempts[i].it = i - 1
    /\ total_responses = <<>>
    /\ pc # "returned"
    /\ pc = "loop" => it = Len(attempts) /\ urls_to_perform = urls
    /\ pc = "raised" =>
         /\ Len(attempts) = max_retries
         /\ outcome.type \in {"OSError", "ValueError"}
         /\ ~outcome.has_ready

\* two attempts, both failed by a connection error, and the error raised
C3_Witness ==
  /\ pc = "raised" /\ max_retries = 2 /\ Len(urls) = 2 /\ Len(attempts) = 2
  /\ \A i \in 1..2 : attempts[i].kind = "connection_error"

\* C4: when an attempt ends with a partial-frame error carrying k responses
\* and retries remain, the k responses are added to the accumulated responses
\* and the next attempt is for the urls that received no response, in order.
C4_PartialRetriesTheRest ==
  (attempts # <<>> /\ LastAttempt.kind = "partial" /\ LastAttempt.it + 1 < max_retries) =>
    /\ pc = "loop"
    /\ it = LastAttempt.it + 1
    /\ total_responses = LastAttempt.total_before \o LastAttempt.responses
    /\ urls_to_perform =
         SubSeq(LastAttempt.urls, Len(LastAttempt.responses) + 1, Len(LastAttempt.urls))

\* the positions of the attempt's urls whose response has a forcelist status
ForcelistUrls(a) ==
  LET P(i) == a.responses[i].status_code \in status_forcelist
      Pos == SelectSeq([i \in 1..Len(a.urls) |-> i], P)
  IN [j \in 1..Len(Pos) |-> a.urls[Pos[j]]]

\* C5: when an attempt frames a response for every url and some have a
\* forcelist status, the responses with a status below 500 are accumulated and
\* the next attempt is for exactly the urls whose response had a forcelist status.
C5_ForcelistRetriesThose ==
  (attempts # <<>> /\ LastAttempt.kind = "forcelist" /\ LastAttempt.it + 1 < max_retries) =>
    /\ pc = "loop"
    /\ total_responses = LastAttempt.total_before \o handled_of(LastAttempt.responses)
    /\ urls_to_perform = ForcelistUrls(LastAttempt)

\* the responses an error carries
Carried(e) == IF e.has_ready THEN e.ready_responses ELSE <<>>

\* C6: every failure that reaches the caller carries the partial result: the
\* responses accumulated over the earlier attempts and those salvaged from the
\* last attempt.
C6_FailureCarriesPartial ==
  (pc = "raised" /\ attempts # <<>>) =>
    Carried(outcome) = LastAttempt.total_before \o handled_of(LastAttempt.responses)

\* the peer sent one complete well-formed response per url
WellFormedInput == stream.dropped = 0 /\ Len(stream.resps) = Len(urls)

ParseEnded == fpc \in {"returned", "raised_partial", "raised_exception"}

BytesOf(resp) == resp.content.bytes

\* C7: for N well-formed responses and N urls, parse_response returns N
\* responses with the status code, headers and body of the inputs in order,
\* and leaves no bytes over.
C7_RoundTrip ==
  (ParseEnded /\ WellFormedInput) =>
    /\ fpc = "returned"
    /\ Len(prepared_resps) = Len(urls)
    /\ content = <<>>
    /\ \A i \in 1..Len(prepared_resps) :
         /\ prepared_resps[i].status_code = int(stream.resps[i].status)
         /\ prepared_resps[i].headers = dict_of(stream.resps[i].hdrs)
         /\ BytesOf(prepared_resps[i]) = stream.resps[i].body

\* the response that a step of parse_response has just framed
Framed == Len(prepared_resps') = Len(prepared_resps) + 1

NewResponse == prepared_resps'[Len(prepared_resps')]

DeclaresNoBody(resp) ==
  IsInt(content_length(resp.headers)) /\ int(content_length(resp.headers)) = 0

\* C8: the body of a framed response is None when the method is HEAD or the
\* response declares Content-Length 0 or none; and for HEAD the cursor moves
\* past the header block and its separator only.
C8_BodyAbsent ==
  [][Framed =>
       /\ (method = <<"H", "E", "A", "D">> \/ DeclaresNoBody(NewResponse)) => NewResponse.content.is_none
       /\ (method = <<"H", "E", "A", "D">> /\ find(content, data_sep) >= 0) =>
            content' = SubSeq(content, find(content, data_sep) + 5, Len(content))]_vars

\* a HEAD response that declares Content-Length 2 and a GET response that
\* declares none, each framed with no body
C8_Witness ==
  /\ fpc = "returned" /\ WellFormedInput
  /\ \E i \in 1..Len(prepared_resps) :
       /\ prepared_resps[i].content.is_none
       /\ \/ method = <<"H", "E", "A", "D">> /\ content_length(prepared_resps[i].headers) = <<"2">>
          \/ method = <<"G", "E", "T">> /\ Len(urls) = 2 /\ stream.resps[i].hdrs = <<>>

IsRequestLine(line) ==
  Len(line) >= 9 /\ SubSeq(line, Len(line) - 8, Len(line)) = <<" ", "H", "T", "T", "P", "/", "1", ".", "1">>

RequestLines(p) == SelectSeq(split(p, sep), IsRequestLine)

ExpectedRequestLines ==
  [i \in 1..Len(urls) |-> upper(method) \o <<" ">> \o urls[i] \o <<" ", "H", "T", "T", "P", "/", "1", ".", "1">>]

IsConnectionClose(line) == line = <<"C", "o", "n", "n", "e", "c", "t", "i", "o", "n", ":", " ", "c", "l", "o", "s", "e">>

ConnectionCloseLines(p) == Len(SelectSeq(split(p, sep), IsConnectionClose))

CallerSendsConnectionClose ==
  \E i \in 1..Len(headers) : headers[i] = <<<<"C", "o", "n", "n", "e", "c", "t", "i", "o", "n">>, <<"c", "l", "o", "s", "e">>>>

\* C9 as stated: the packet has one request line per url, in input order, and
\* exactly one Connection: close line iff connection_keep_alive is false.
C9_Original ==
  ppc = "built" =>
    /\ RequestLines(packet) = ExpectedRequestLines
    /\ (ConnectionCloseLines(packet) = 1) <=> ~connection_keep_alive

\* C9 amended: the packet has one request line per url, in input order, and,
\* when the caller's headers hold no Connection: close entry, exactly one
\* Connection: close line iff connection_keep_alive is false.
C9_RequestLines ==
  ppc = "built" =>
    /\ RequestLines(packet) = ExpectedRequestLines
    /\ ~CallerSendsConnectionClose =>
         ((ConnectionCloseLines(packet) = 1) <=> ~connection_keep_alive)

\* two urls, a caller header, no keep-alive: one Connection: close line
C9_Witness ==
  /\ ppc = "built" /\ Len(urls) = 2 /\ urls[1] # urls[2]
  /\ ~connection_keep_alive /\ headers # <<>> /\ ~CallerSendsConnectionClose
  /\ ConnectionCloseLines(packet) = 1

\* the lines of p that a CRLF terminates
TerminatedLines(p) == SubSeq(split(p, sep), 1, Len(split(p, sep)) - 1)

IsBlank(line) == line = <<>>

BlankLines(p) == Len(SelectSeq(TerminatedLines(p), IsBlank))

\* the index of the last request line among the terminated lines of p
LastRequestLine(p) ==
  CHOOSE i \in 1..Len(TerminatedLines(p)) :
    /\ IsRequestLine(TerminatedLines(p)[i])
    /\ \A j \in (i + 1)..Len(TerminatedLines(p)) : ~IsRequestLine(TerminatedLines(p)[j])

RECURSIVE HeaderLines(_)
HeaderLines(hs) ==
  IF hs = <<>> THEN <<>>
  ELSE <<hs[1][1] \o <<":", " ">> \o hs[1][2]>> \o HeaderLines(Tail(hs))

\* the lines of the request for the url of index i
LinesOfRequest(i) ==
  <<ExpectedRequestLines[i], <<"H", "o", "s", "t", ":", " ">> \o Host>> \o HeaderLines(headers)

BlankLine == << <<>> >>

C11_TlsBySchemeOrPort ==
  tpc = "selected" =>
    /\ tls <=> (given.scheme = <<"h", "t", "t", "p", "s">> \/ target.port = 443)
    /\ given.port = <<>> => target.port = (IF given.scheme = <<"h", "t", "t", "p", "s">> THEN 443 ELSE 80)

\* a step of recvall that calls sock.recv
ReadStep == tpc = "receiving" /\ (data' # data \/ last_recv' \in {"closed", "timeout"})

\* C12: recvall performs no read once the buffer holds at least resp_count
\* occurrences of the double-CRLF separator, however the bytes are split across
\* reads: every read happens with fewer than resp_count occurrences in the buffer.
C12_NoReadOnceEnough ==
  [][ReadStep => count(data, data_sep) < Len(urls_to_perform)]_vars

\* framing is at a url with a non-empty buffer that holds no separator
NoSeparator ==
  fpc = "loop" /\ idx < Len(urls) /\ content # <<>> /\ find(content, data_sep) = -1

\* C13: when framing reaches a url for which the remaining buffer is non-empty
\* but holds no double-CRLF separator, parse_response creates no response for
\* that url and stops the loop, so that the length check raises the
\* partial-frame error with exactly the responses framed before that url.
C13_NoSeparatorStops ==
  [][NoSeparator => (prepared_resps' = prepared_resps /\ fpc' = "check")]_vars

\* the buffer ends inside the body of the last response the peer sent
BodyCut ==
  /\ stream.resps # <<>>
  /\ stream.dropped \in 1..Len(stream.resps[Len(stream.resps)].body)

\* C14: when the method is not HEAD and the buffer ends before all Content-Length
\* body bytes of a response have arrived, that response is not counted as
\* framed: it is neither returned nor attached to the partial-frame error.
C14_CutBodyNotFramed ==
  (fpc \in {"returned", "raised_partial"} /\ method # <<"H", "E", "A", "D">> /\ BodyCut) =>
    Len(prepared_resps) < Len(stream.resps)

\* the length of the status line and header lines the peer sent for r
HeaderBlockLength(r) == Len(encode(r)) - Len(data_sep) - Len(r.body)

\* the body length the cursor skips: Content-Length, or 0 for HEAD
SkippedBody(r) == IF method = <<"H", "E", "A", "D">> THEN 0 ELSE DeclaredLength(r.hdrs)

\* C15: on a stream of N well-formed responses for N urls, every iteration
\* frames a response, the cursor advances by exactly the header block length
\* plus the 4 separator bytes plus the body length (Content-Length, or 0 for
\* HEAD), and the i-th framed response has the status code and headers of the
\* i-th response of the stream and the i-th url.
C15_CursorAdvance ==
  [][(fpc = "loop" /\ WellFormedInput) =>
       /\ Framed
       /\ NewResponse.status_code = int(stream.resps[idx + 1].status)
       /\ NewResponse.headers = dict_of(stream.resps[idx + 1].hdrs)
       /\ NewResponse.url = urls[idx + 1]
       /\ Len(content') = Len(content) - (HeaderBlockLength(stream.resps[idx + 1])
                                            + 4 + SkippedBody(stream.resps[idx + 1]))
       /\ content' = SubSeq(content, Len(content) - Len(content') + 1, Len(content))]_vars

\* two GET responses of different status, the first with a body of 2 bytes,
\* framed in order
C15_Witness ==
  /\ fpc = "returned" /\ WellFormedInput /\ method = <<"G", "E", "T">> /\ Len(urls) = 2
  /\ Len(stream.resps[1].body) = 2
  /\ stream.resps[1].status = <<"5", "0", "3">> /\ stream.resps[2].status = <<"2", "0", "0">>
  /\ prepared_resps[1].status_code = 503 /\ prepared_resps[2].status_code = 200
  /\ prepared_resps[2].url = urls[2]

\* C16: whenever control is back in the caller of an attempt, whichever way the
\* attempt ended, the socket opened for it is closed; and at most one socket
\* is open at any time across the retries.
C16_SocketClosed ==
  /\ sock_open <= 1
  /\ tpc = "idle" => sock_open = 0

\* a connection failure, then an attempt ended by an exception of the framing
C16_Witness ==
  /\ tpc = "idle" /\ sock_open = 0 /\ Len(attempts) = 2
  /\ attempts[1].kind = "connection_error"
  /\ attempts[2].kind \in {"exception", "partial"}

\* C17: the delay slept after the failed attempt with index i (from 0) is
\* backoff_factor * (1 + i*(i-1)/2): it starts at backoff_factor and after each
\* sleep grows by attempt_index * backoff_factor.
C17_BackoffAdditive ==
  \A i \in 1..Len(attempts) :
    attempts[i].slept # -1 =>
      attempts[i].slept =
        backoff_factor * (1 + (attempts[i].it * (attempts[i].it - 1)) \div 2)

\* the third failed attempt sleeps twice the factor
C17_Witness ==
  /\ Len(attempts) >= 3 /\ backoff_factor = 2
  /\ attempts[1].slept = 2 /\ attempts[2].slept = 2 /\ attempts[3].slept = 4

\* the iterations of the retry loop begun so far
StartedAttempts == Len(attempts) + (IF tpc = "idle" THEN 0 ELSE 1)

C19_PartialIsStrictPrefix ==
  /\ fpc = "raised_partial" =>
       /\ 1 <= Len(prepared_resps) /\ Len(prepared_resps) < Len(urls)
       /\ \A i \in 1..Len(prepared_resps) : prepared_resps[i].url = urls[i]
  /\ (ParseEnded /\ prepared_resps = <<>>) => fpc = "raised_exception"

\* one response framed for two urls
C19_Witness ==
  /\ fpc = "raised_partial" /\ Len(urls) = 2 /\ Len(prepared_resps) = 1
  /\ prepared_resps[1].url = urls[1]

\* C20: no response whose status code is in status_forcelist is part of the
\* list http_pipelining_with_retries returns normally, for every forcelist
\* (also one with status codes below 500) and every sequence of attempts.
C20_NoForcelistReturned ==
  pc = "returned" =>
    \A i \in 1..Len(outcome.value) : outcome.value[i].status_code \notin status_forcelist

\* a list returned at the second attempt under a forcelist that holds 404
C20_Witness ==
  /\ pc = "returned" /\ 404 \in status_forcelist /\ Len(attempts) = 2
  /\ Len(outcome.value) = 2

====
